---- MODULE Spec2Model ----
(***************************************************************************)
(* Model of the FINN MultiThreshold operator of relay/op/contrib/finn.cc:  *)
(* the out_dtype parser try_process_out_dtype, the type relation           *)
(* MultiThresholdRel and the constructor MakeMultiThreshold.               *)
(*                                                                         *)
(* Numbers that the code compares (shape extents, bit_width_pow, out_bias) *)
(* are dyadic rationals m * 2^e kept in normal form (m odd, or m = 0 and   *)
(* e = 0), so that 2^64, INT_MIN and -0.5 are all exact and equality of    *)
(* values is equality of records.  Strings are sequences of one-character  *)
(* strings.  The type array is a function on 0..2, indexed as in the code. *)
(***************************************************************************)
EXTENDS Integers, Sequences, FiniteSets, TLC

VARIABLES pc, attrs, types, ret, diag, steps, oob, locals, pdesc, pres

vars == <<pc, attrs, types, ret, diag, steps, oob, locals, pdesc, pres>>

-----------------------------------------------------------------------------
(* Bounds of the explored inputs *)

MaxRank == 2
MaxWidthTried == 66
MaxTailLen == 3
MaxPad == 2

-----------------------------------------------------------------------------
(* Exact numbers: m * 2^e *)

Abs(n) == IF n < 0 THEN -n ELSE n

RECURSIVE Norm(_, _)
Norm(m, e) ==
    IF m = 0 THEN [m |-> 0, e |-> 0]
    ELSE IF m % 2 = 0 THEN Norm(m \div 2, e + 1)
    ELSE [m |-> m, e |-> e]

FromInt(n) == Norm(n, 0)
Pow2(k) == [m |-> 1, e |-> k]
Zero == FromInt(0)
Neg(x) == [m |-> -x.m, e |-> x.e]

(* the 32-bit int of the build *)
IntMaxValue == 2147483647
IntBits == 32
IntMax == FromInt(IntMaxValue)
IntMin == [m |-> -1, e |-> IntBits - 1]

(* quotient of integers rounded toward zero, as C++ '/' on int *)
TruncDiv(a, b) == IF a >= 0 THEN a \div b ELSE -((-a) \div b)

(* x is a value of type int *)
InIntRange(x) ==
    \/ x = IntMin
    \/ x.e >= 0 /\ x.e <= IntBits - 2 /\ Abs(x.m) <= IntMaxValue \div (2 ^ x.e)

-----------------------------------------------------------------------------
(* Strings *)

Digits == {"0", "1", "2", "3", "4", "5", "6", "7", "8", "9"}

DigitVal(c) ==
    CASE c = "0" -> 0 [] c = "1" -> 1 [] c = "2" -> 2 [] c = "3" -> 3
      [] c = "4" -> 4 [] c = "5" -> 5 [] c = "6" -> 6 [] c = "7" -> 7
      [] c = "8" -> 8 [] c = "9" -> 9

npos == -1

UINT == <<"U", "I", "N", "T">>
INT == <<"I", "N", "T">>

(* std::string::find(pat): 0-based position of the first occurrence, or npos *)
find(s, pat) ==
    LET hits == {i \in 0..(Len(s) - Len(pat)) :
                    \A j \in 1..Len(pat) : s[i + j] = pat[j]}
    IN IF hits = {} THEN npos
       ELSE CHOOSE i \in hits : \A k \in hits : i <= k

(* std::string::substr(pos): the characters from 0-based pos to the end;    *)
(* throws std::out_of_range when pos > size                                 *)
substr(s, pos) ==
    IF pos > Len(s) THEN [thrown |-> TRUE, str |-> <<>>]
    ELSE [thrown |-> FALSE, str |-> SubSeq(s, pos + 1, Len(s))]

RECURSIVE SkipSpace(_, _)
SkipSpace(s, i) ==
    IF i <= Len(s) /\ s[i] = " " THEN SkipSpace(s, i + 1) ELSE i

RECURSIVE DigitRun(_, _, _)
DigitRun(s, i, acc) ==
    IF i <= Len(s) /\ s[i] \in Digits
    THEN DigitRun(s, i + 1, 10 * acc + DigitVal(s[i]))
    ELSE acc

(* std::stoi(str) in base 10: leading whitespace is skipped, one optional   *)
(* sign is taken, then the longest run of digits; whatever follows the run  *)
(* is ignored; no digit at all throws std::invalid_argument.  The caller    *)
(* passes at most two characters, so std::out_of_range cannot arise.        *)
stoi(s) ==
    LET i == SkipSpace(s, 1)
        signed == i <= Len(s) /\ s[i] \in {"+", "-"}
        neg == signed /\ s[i] = "-"
        j == IF signed THEN i + 1 ELSE i
        has == j <= Len(s) /\ s[j] \in Digits
    IN IF ~has THEN [thrown |-> TRUE, val |-> 0]
       ELSE [thrown |-> FALSE,
             val |-> IF neg THEN -DigitRun(s, j, 0) ELSE DigitRun(s, j, 0)]

-----------------------------------------------------------------------------
(* try_process_out_dtype *)

UintIndex == 4
IntIndex == 3
MaxStrSize == 2
MaxBitWidth == 64

(* where the width string starts, given where the prefix was found *)
WidthStartAfterMatch(found, bit_width_index) == found + bit_width_index

WidthStart(found, bit_width_index) == bit_width_index

(* the range test on the parsed width *)
WidthRejected(bit_width) == bit_width > MaxBitWidth

(* Result [ok, is_signed, bit_width]; is_signed0 and bit_width0 are the      *)
(* values the by-reference parameters hold on entry.                         *)
try_process_out_dtype(out_dtype, is_signed0, bit_width0) ==
    LET foundU == find(out_dtype, UINT)
        is_signed == foundU = npos
        found == IF foundU = npos THEN find(out_dtype, INT) ELSE foundU
        bit_width_index == IF foundU = npos THEN IntIndex ELSE UintIndex
        sub == substr(out_dtype, WidthStart(found, bit_width_index))
        bit_width_str == sub.str
        parsed == stoi(bit_width_str)
        fail(bw) == [ok |-> FALSE, is_signed |-> is_signed, bit_width |-> bw]
    IN IF found = npos THEN fail(bit_width0)
       ELSE IF sub.thrown THEN fail(bit_width0)
       ELSE IF Len(bit_width_str) = 0 \/ Len(bit_width_str) > MaxStrSize
            THEN fail(bit_width0)
       ELSE IF parsed.thrown THEN fail(bit_width0)
       ELSE IF WidthRejected(parsed.val) THEN fail(parsed.val)
       ELSE [ok |-> TRUE, is_signed |-> is_signed, bit_width |-> parsed.val]

-----------------------------------------------------------------------------
(* Numeric steps of MultiThresholdRel *)

(* std::pow(2, bit_width): a power of two, exact in a double *)
pow(bit_width) == Pow2(bit_width)

(* Conversion of a double to int.  A value of magnitude below 2^31 is      *)
(* truncated toward zero.  Any other value is undefined behaviour: builds  *)
(* give INT_MIN (x86 cvttsd2si), INT_MAX (saturating conversion) or 0 (a   *)
(* 64-bit conversion cut to its low 32 bits).                              *)
DoubleToInt(x) ==
    IF x.e < 0
    THEN {IF -x.e >= IntBits - 1 THEN Zero ELSE FromInt(TruncDiv(x.m, 2 ^ (-x.e)))}
    ELSE IF InIntRange(x) THEN {x}
    ELSE {IntMin, IntMax, Zero}

(* the values 'int bit_width_pow = std::pow(2, bit_width)' can hold *)
bit_width_pow_values(bit_width) == DoubleToInt(pow(bit_width))

(* int / 2, rounded toward zero *)
HalfInt(y) ==
    IF y.e >= 1 THEN Norm(y.m, y.e - 1) ELSE FromInt(TruncDiv(y.m, 2))

(* The int expression -bit_width_pow / 2.  Negating INT_MIN overflows,     *)
(* which is undefined: the negation wraps to INT_MIN, or the expression is *)
(* folded to bit_width_pow / -2.                                           *)
NegHalf(bit_width_pow) ==
    IF bit_width_pow = IntMin
    THEN {HalfInt(IntMin), Neg(HalfInt(IntMin))}
    ELSE {HalfInt(Neg(bit_width_pow))}

SignedBiasBadAnySign(is_signed, out_bias, expected) == out_bias # expected

SignedBiasBad(is_signed, out_bias, expected) ==
    is_signed /\ out_bias # expected

UnsignedBiasBad(is_signed, out_bias) ==
    ~is_signed /\ out_bias # Zero

-----------------------------------------------------------------------------
(* Types *)

ElemTypes == {"float32", "int8"}

TensorType(shape, dtype) == [kind |-> "tensor", shape |-> shape, dtype |-> dtype]
Incomplete == [kind |-> "incomplete", shape |-> <<>>, dtype |-> "none"]
TupleType == [kind |-> "tuple", shape |-> <<>>, dtype |-> "none"]

IsTensor(t) == t.kind = "tensor"

LeadExtent == FromInt(10)
Extents == {FromInt(10), Pow2(4), Pow2(0), IntMax}

(* shapes of rank 0..MaxRank: leading extents 10, any last extent *)
Shapes ==
    {<<>>} \cup
    {[i \in 1..r |-> IF i < r THEN LeadExtent ELSE d] : r \in 1..MaxRank, d \in Extents}

OperandTypes ==
    {TupleType} \cup {TensorType(sh, dt) : sh \in Shapes, dt \in ElemTypes}

DataIndex == 0
ThresholdsIndex == 1
OutIndex == 2

TypeArray(t0, t1) ==
    [i \in 0..2 |-> IF i = DataIndex THEN t0
                    ELSE IF i = ThresholdsIndex THEN t1 ELSE Incomplete]

NoTypes == [i \in 0..2 |-> Incomplete]

(* types[0].as<TensorTypeNode>(), bound to 'data' *)
DataType(ts) == ts[0]

(* types[0].as<TensorTypeNode>(), bound to 'thresholds' *)
ThresholdsType(ts) == ts[0]

AssignedFromThresholds(ts) == ts[1]

(* the right-hand side of reporter->Assign(types[2], types[0]) *)
AssignedType(ts) == ts[0]

(* thresholds->shape[thresh_last_index - 1] with thresh_last_index =       *)
(* shape.size() of type size_t.  For an empty shape the index wraps around *)
(* and lies outside the array: the read fails the call or yields some      *)
(* value.                                                                  *)
LastExtentReads(shape) ==
    IF Len(shape) >= 1
    THEN {[oob |-> FALSE, failed |-> FALSE, val |-> shape[Len(shape)]]}
    ELSE {[oob |-> TRUE, failed |-> TRUE, val |-> Zero]}
         \cup {[oob |-> TRUE, failed |-> FALSE, val |-> g] : g \in Extents}

(* reporter->AssertEQ(lhs, rhs): the two extents are equal; otherwise the  *)
(* relation fails with a count mismatch.                                   *)
AssertEQ(lhs, rhs) == lhs = rhs

-----------------------------------------------------------------------------
(* MultiThresholdRel *)

NoLocals ==
    [is_signed |-> TRUE, bit_width |-> 0, bit_width_pow |-> Zero,
     last |-> Zero, expected |-> Zero]

RelResult(ts, r, d, st, o, l) ==
    [types |-> ts, ret |-> r, diag |-> d, steps |-> st, oob |-> o, locals |-> l]

(* every result the call can produce on the type array ts and attributes a *)
MultiThresholdRelResults(ts, a) ==
    LET data == DataType(ts)
        thresholds == ThresholdsType(ts)
        p == try_process_out_dtype(a.out_dtype, TRUE, 0)
        l1 == [NoLocals EXCEPT !.is_signed = p.is_signed, !.bit_width = p.bit_width]
    IN IF ~IsTensor(data)
       THEN {RelResult(ts, FALSE, "none", <<"data">>, FALSE, NoLocals)}
       ELSE IF ~IsTensor(thresholds)
       THEN {RelResult(ts, FALSE, "none", <<"data", "thresholds">>, FALSE, NoLocals)}
       ELSE IF ~p.ok
       THEN {RelResult(ts, FALSE, "bad_format",
                       <<"data", "thresholds", "parse">>, FALSE, l1)}
       ELSE UNION {UNION {
            LET l2 == [l1 EXCEPT !.bit_width_pow = bwp, !.last = rd.val]
                st3 == <<"data", "thresholds", "parse", "count">>
            IN IF rd.failed
               THEN {RelResult(ts, FALSE, "index_error", st3, TRUE, l2)}
               ELSE IF ~AssertEQ(rd.val, bwp)
               THEN {RelResult(ts, FALSE, "count_mismatch", st3, rd.oob, l2)}
               ELSE {LET l3 == [l2 EXCEPT !.expected = ex]
                     IN IF SignedBiasBad(p.is_signed, a.out_bias, ex)
                        THEN RelResult(ts, FALSE, "signed_bias",
                                       Append(st3, "signed_bias"), rd.oob, l3)
                        ELSE IF UnsignedBiasBad(p.is_signed, a.out_bias)
                        THEN RelResult(ts, FALSE, "unsigned_bias",
                                       st3 \o <<"signed_bias", "unsigned_bias">>,
                                       rd.oob, l3)
                        ELSE RelResult([ts EXCEPT ![OutIndex] = AssignedType(ts)],
                                       TRUE, "none",
                                       st3 \o <<"signed_bias", "unsigned_bias", "assign">>,
                                       rd.oob, l3)
                     : ex \in NegHalf(bwp)}
            : rd \in LastExtentReads(thresholds.shape)}
            : bwp \in bit_width_pow_values(p.bit_width)}

-----------------------------------------------------------------------------
(* Inputs *)

DigitChar(d) == CHOOSE c \in Digits : DigitVal(c) = d

RECURSIVE DecStr(_)
DecStr(w) == IF w < 10 THEN <<DigitChar(w)>> ELSE Append(DecStr(w \div 10), DigitChar(w % 10))

OddDescriptors ==
    { <<"F", "O", "O", "8">>, INT, INT \o <<"1", "2", "8">>,
      INT \o <<"-", "1">>, UINT \o <<"-", "1">>, INT \o <<"8", "x">>,
      <<"x">> \o INT \o <<"8">> }

InferDescriptors ==
    {p \o DecStr(w) : p \in {UINT, INT}, w \in 0..MaxWidthTried} \cup OddDescriptors

BiasExps == {-1, 0, 3, 30}

Biases ==
    {Zero, FromInt(1), Pow2(30), FromInt(-1073741823)}
    \cup {Neg(Pow2(k)) : k \in BiasExps}

PadChars == {"x"}
Prefixes == {UINT, INT, <<"F", "O", "O">>}
TailAlphabet == Digits \cup {"x", "-", "+", " "}

(* all strings over alphabet of length at most n *)
StringsUpTo(alphabet, n) == UNION {[1..k -> alphabet] : k \in 0..n}

(* padding, then a prefix, then a tail *)
ParseDescriptors(maxPad, maxTail) ==
    {q \o p \o t : q \in StringsUpTo(PadChars, maxPad), p \in Prefixes,
                   t \in StringsUpTo(TailAlphabet, maxTail)}

-----------------------------------------------------------------------------
(* State machine *)

NoAttrs == [out_dtype |-> <<>>, out_bias |-> Zero]
NoParse == [ok |-> FALSE, is_signed |-> TRUE, bit_width |-> 0]

Init ==
    /\ pc = "idle"
    /\ attrs = NoAttrs
    /\ types = NoTypes
    /\ ret = FALSE
    /\ diag = "none"
    /\ steps = <<>>
    /\ oob = FALSE
    /\ locals = NoLocals
    /\ pdesc = <<>>
    /\ pres = NoParse

(* MakeMultiThreshold: the attributes are stored as given, unvalidated *)
MakeMultiThreshold ==
    /\ pc = "idle"
    /\ \E out_dtype \in InferDescriptors, out_bias \in Biases :
          attrs' = [out_dtype |-> out_dtype, out_bias |-> out_bias]
    /\ pc' = "built"
    /\ UNCHANGED <<types, ret, diag, steps, oob, locals, pdesc, pres>>

(* the type solver runs the relation on the call's type array *)
MultiThresholdRel ==
    /\ pc = "built"
    /\ \E t0 \in OperandTypes, t1 \in OperandTypes :
          \E r \in MultiThresholdRelResults(TypeArray(t0, t1), attrs) :
             /\ types' = r.types
             /\ ret' = r.ret
             /\ diag' = r.diag
             /\ steps' = r.steps
             /\ oob' = r.oob
             /\ locals' = r.locals
    /\ pc' = "done"
    /\ UNCHANGED <<attrs, pdesc, pres>>

Next == MakeMultiThreshold \/ MultiThresholdRel

Spec == Init /\ [][Next]_vars

(* try_process_out_dtype alone, on a wider family of descriptors *)
ParseCall ==
    /\ pc = "idle"
    /\ \E d \in ParseDescriptors(MaxPad, MaxTailLen) :
          /\ pdesc' = d
          /\ pres' = try_process_out_dtype(d, TRUE, 0)
    /\ pc' = "parsed"
    /\ UNCHANGED <<attrs, types, ret, diag, steps, oob, locals>>

NextParse == ParseCall

SpecParse == Init /\ [][NextParse]_vars

-----------------------------------------------------------------------------
(* Vocabulary of the properties *)

Done == pc = "done"
Parsed == pc = "parsed"

InSteps(s) == \E i \in 1..Len(steps) : steps[i] = s

(* what the call reported *)
Outcome ==
    IF ret THEN "Success"
    ELSE CASE diag = "none" -> "NotATensor"
           [] diag = "bad_format" -> "BadDtypeFormat"
           [] diag = "count_mismatch" -> "ThresholdCountMismatch"
           [] diag = "index_error" -> "IndexError"
           [] diag = "signed_bias" -> "BadSignedBias"
           [] diag = "unsigned_bias" -> "BadUnsignedBias"

(* the descriptor of the call, as the parser reads it *)
CallParse == try_process_out_dtype(attrs.out_dtype, TRUE, 0)

BothTensors == IsTensor(types[DataIndex]) /\ IsTensor(types[ThresholdsIndex])

LastExtent(t) == t.shape[Len(t.shape)]

AllDigits(t) == \A i \in 1..Len(t) : t[i] \in Digits

(* the prefix a descriptor holds, where it first occurs, and what follows it *)
HasUINT(d) == find(d, UINT) # npos
HasPrefix(d) == HasUINT(d) \/ find(d, INT) # npos
PrefixPos(d) == IF HasUINT(d) THEN find(d, UINT) ELSE find(d, INT)
PrefixLen(d) == IF HasUINT(d) THEN Len(UINT) ELSE Len(INT)
Remainder(d) == SubSeq(d, PrefixPos(d) + PrefixLen(d) + 1, Len(d))
NumericTail(d) == HasPrefix(d) /\ Len(Remainder(d)) \in 1..2 /\ AllDigits(Remainder(d))
TailValue(d) == DigitRun(Remainder(d), 1, 0)

-----------------------------------------------------------------------------
(* C1: for an accepted descriptor of width w in 0..64 and tensor operands,  *)
(* the call fails with ThresholdCountMismatch when the last extent of the   *)
(* THRESHOLDS operand differs from 2^w, and goes on to the bias check when  *)
(* it equals 2^w, whatever the shape of data; stated for the calls that    *)
(* read no shape out of bounds.  (Violated: the relation reads the data     *)
(* operand's shape.)                                                        *)
C1_ThresholdCountOnThresholds ==
    (/\ Done /\ ~oob /\ BothTensors /\ CallParse.ok
     /\ CallParse.bit_width \in 0..MaxBitWidth
     /\ Len(types[ThresholdsIndex].shape) >= 1)
    => LET last == LastExtent(types[ThresholdsIndex])
           levels == Pow2(CallParse.bit_width)
       IN /\ last # levels => Outcome = "ThresholdCountMismatch"
          /\ last = levels => InSteps("signed_bias")

(* C2: whenever the call succeeds, the output slot holds the data operand's *)
(* type, shape and element type alike, and the operand slots are untouched; *)
(* a failed call leaves the output slot unassigned.                         *)
C2_OutputIsDataType ==
    Done =>
      /\ ret => /\ types[OutIndex] = types[DataIndex]
                /\ IsTensor(types[OutIndex])
      /\ ~ret => types[OutIndex] = Incomplete

(* C2 witness: a successful call whose thresholds operand is a tensor type  *)
(* different from the data operand's.                                       *)
C2_Witness ==
    /\ Done /\ ret /\ ~oob
    /\ locals.bit_width_pow = Pow2(locals.bit_width)
    /\ IsTensor(types[ThresholdsIndex])
    /\ types[ThresholdsIndex] # types[DataIndex]
    /\ types[ThresholdsIndex].dtype # types[DataIndex].dtype
    /\ types[OutIndex] = types[DataIndex]

(* C3: for a signed descriptor the bias check passes exactly when out_bias  *)
(* is -(2^w)/2 as a real number, and any other out_bias gives BadSignedBias;*)
(* stated for the calls that read no shape out of bounds.                   *)
(* (Violated: the code compares with an int expression, 0 for w = 0 and an  *)
(* overflowed value for w >= 31.)                                           *)
C3_SignedBiasExact ==
    (Done /\ ~oob /\ InSteps("signed_bias") /\ locals.is_signed)
    => /\ ret <=> attrs.out_bias = Neg(Pow2(locals.bit_width - 1))
       /\ ~ret => Outcome = "BadSignedBias"

(* C4: for an unsigned descriptor, once the checks before the bias check    *)
(* have passed, the call succeeds exactly when out_bias is 0, any other     *)
(* out_bias gives BadUnsignedBias, and the signed rule is never applied.    *)
C4_UnsignedBias ==
    (Done /\ CallParse.ok /\ ~CallParse.is_signed)
    => /\ diag # "signed_bias"
       /\ ~locals.is_signed \/ ~InSteps("parse")
       /\ InSteps("signed_bias") =>
             /\ ret <=> attrs.out_bias = Zero
             /\ attrs.out_bias # Zero => Outcome = "BadUnsignedBias"
             /\ ret => InSteps("unsigned_bias")

(* C4 witness: an unsigned descriptor that passed the count check and is    *)
(* rejected for a non-zero bias that the signed rule would have accepted.   *)
C4_Witness ==
    /\ Done /\ CallParse.ok /\ ~CallParse.is_signed /\ ~oob
    /\ locals.bit_width_pow = Pow2(locals.bit_width)
    /\ InSteps("unsigned_bias")
    /\ attrs.out_bias = locals.expected
    /\ attrs.out_bias # Zero
    /\ Outcome = "BadUnsignedBias"

(* C5: a thresholds operand of rank 0 makes the call fail with EmptyShape,  *)
(* and no call reads a shape outside 0..size-1.  (Violated: the shape is    *)
(* indexed at size-1 unguarded.)                                            *)
C5_EmptyShapeGuarded ==
    Done =>
      /\ ~oob
      /\ (BothTensors /\ CallParse.ok /\ types[ThresholdsIndex].shape = <<>>)
            => Outcome = "EmptyShape"

(* C6: when either operand is not a tensor type the call returns the        *)
(* not-applicable outcome before parsing, without a diagnostic and without  *)
(* assigning the output slot.  (Violated: the thresholds operand is never   *)
(* inspected.)                                                              *)
C6_NotATensorEitherOperand ==
    (Done /\ ~BothTensors)
    => /\ Outcome = "NotATensor"
       /\ diag = "none"
       /\ ~InSteps("parse")
       /\ types[OutIndex] = Incomplete

(* C7: for a width w in 0..64 the value of levels the count check and the   *)
(* bias check use is exactly 2^w; stated for the calls that read no shape   *)
(* out of bounds.  (Violated: it is held in a 32-bit int.)                  *)
C7_LevelsExact ==
    (Done /\ ~oob /\ InSteps("count") /\ locals.bit_width \in 0..MaxBitWidth)
    => locals.bit_width_pow = Pow2(locals.bit_width)

(* C8 as stated: a descriptor holding "UINT" (or, failing that, "INT") at   *)
(* any position and ending in a tail of 1 or 2 digits parses successfully,  *)
(* unsigned for "UINT" and signed for "INT", with the tail's value as width.*)
C8_SubstringPrefixParses ==
    (Parsed /\ NumericTail(pdesc))
    => /\ pres.ok
       /\ pres.is_signed = ~HasUINT(pdesc)
       /\ pres.bit_width = TailValue(pdesc)

(* C8 amended: the prefix is searched as a substring but the width is read  *)
(* at the fixed offset 4 or 3: a descriptor with the prefix at position 0   *)
(* and a tail of 1 or 2 digits of value at most 64 parses successfully,     *)
(* unsigned for "UINT" and signed for "INT", with the tail's value as       *)
(* width; a descriptor whose prefix first occurs at another position never  *)
(* parses successfully.                                                     *)
C8_AnchoredPrefixParses ==
    Parsed =>
      /\ (NumericTail(pdesc) /\ PrefixPos(pdesc) = 0 /\ TailValue(pdesc) <= MaxBitWidth)
            => /\ pres.ok
               /\ pres.is_signed = ~HasUINT(pdesc)
               /\ pres.bit_width = TailValue(pdesc)
      /\ (HasPrefix(pdesc) /\ PrefixPos(pdesc) > 0) => ~pres.ok
      /\ (NumericTail(pdesc) /\ TailValue(pdesc) > MaxBitWidth) => ~pres.ok

(* C8 witness: a descriptor with "UINT" at position 1 and a one-digit tail, *)
(* rejected by the parser.                                                  *)
C8_Witness ==
    /\ Parsed
    /\ HasUINT(pdesc) /\ PrefixPos(pdesc) = 1
    /\ NumericTail(pdesc) /\ Len(Remainder(pdesc)) = 1
    /\ ~pres.ok

(* C9: every successful parse has a remainder of 1 or 2 decimal digits and  *)
(* returns its base-10 value, between 0 and 64.  (Violated: std::stoi takes *)
(* a sign or a leading space and ignores what follows the digits.)          *)
C9_RemainderDigitsOnly ==
    (Parsed /\ pres.ok)
    => /\ NumericTail(pdesc)
       /\ pres.bit_width \in 0..MaxBitWidth
       /\ pres.bit_width = TailValue(pdesc)

(* the error the ordered checks of the relation are to report *)
FirstFailure ==
    LET thr == types[ThresholdsIndex]
    IN IF ~BothTensors THEN "NotATensor"
       ELSE IF ~CallParse.ok THEN "BadDtypeFormat"
       ELSE IF thr.shape = <<>> THEN "EmptyShape"
       ELSE IF LastExtent(thr) # locals.bit_width_pow THEN "ThresholdCountMismatch"
       ELSE IF CallParse.is_signed /\ attrs.out_bias # locals.expected THEN "BadSignedBias"
       ELSE IF ~CallParse.is_signed /\ attrs.out_bias # Zero THEN "BadUnsignedBias"
       ELSE "Success"

(* C10: the checks run in the order tensor-ness, parsing, threshold count   *)
(* with the empty-shape guard, bias; the call reports the earliest failing  *)
(* check, runs nothing after it and assigns the output slot only when none  *)
(* failed.  (Violated: the tensor-ness, empty-shape and count checks do not *)
(* look at the thresholds operand.)                                         *)
C10_FirstFailureReported ==
    Done =>
      /\ Outcome = FirstFailure
      /\ types[OutIndex] # Incomplete <=> Outcome = "Success"

====
